---- MODULE Spec2Model ----
(***************************************************************************)
(* Model of the self-verifying generation pipeline: run_pipeline (the task *)
(* loop and the per-task attempt loop of src/run_pipeline.py) and the      *)
(* collaborators it drives: CodeValidator, PromptBuilder, LLMCodeGenerator,*)
(* OutputParser, FileWriter, ProgressTracker, TaskManager, TaskParser.     *)
(*                                                                         *)
(* Three specifications:                                                   *)
(*   Spec           the whole run of run_pipeline, one step per attempt;    *)
(*   SpecValidator  CodeValidator.passes_training_examples applied to      *)
(*                  every task and candidate of a bounded set;             *)
(*   SpecParser     OutputParser.extract_code applied to every raw text    *)
(*                  of a bounded length;                                   *)
(*   SpecAttempts   run_pipeline on a single task, with more retries than  *)
(*                  Spec affords.                                          *)
(***************************************************************************)
EXTENDS Integers, Sequences, FiniteSets, TLC

\* ------------------------------------------------------------------ bounds
MaxTasks   == 2     \* task files found by get_task_paths
MaxRetries == 1     \* largest max_retries of a run
MaxCalls   == 2     \* largest max_api_calls of a run
MaxTrain   == 2     \* training examples of a task (SpecValidator)
MaxText    == 6     \* pieces of a raw response (SpecParser)
MaxLoopRetries == 3 \* max_retries of the run of one task (SpecAttempts)

\* ------------------------------------------------------- Python values
\* Optional values: None is the empty tuple, a present value x is <<x>>.
None == <<>>
Some(x) == <<x>>

\* A number with one decimal digit: Num(1, 5) is 1.5.  Task grids hold whole
\* numbers only; a candidate may return any number.
Num(i, t) == [int |-> i, tenths |-> t]

WholeCells    == {Num(0, 0), Num(1, 0)}
ReturnedCells == WholeCells \cup {Num(1, 5)}

\* Grids are lists of rows.
InputGrids    == { <<<<Num(0, 0)>>>>, <<<<Num(1, 0)>>>> }
ExpectedGrids == { <<<<a>>>> : a \in WholeCells } \cup { <<<<Num(1, 0)>>, <<Num(0, 0)>>>> }
RaggedValue   == <<<<Num(1, 0)>>, <<Num(1, 0), Num(1, 0)>>>>
ReturnedValues ==
    { <<<<a>>>> : a \in ReturnedCells }
        \cup { <<<<Num(1, 0)>>, <<Num(0, 0)>>>>, RaggedValue }

\* What calling p on an input does: it raises, it returns a value, or it
\* never returns (an endless loop).
\* writes: None, or the content p gives, in place, to the list it was called on.
Raises(msg)   == [kind |-> "raise", value |-> <<>>, msg |-> msg, writes |-> None]
Returns(v)    == [kind |-> "return", value |-> v, msg |-> "", writes |-> None]
Diverges      == [kind |-> "loop", value |-> <<>>, msg |-> "", writes |-> None]
Overwritten   == <<<<Num(1, 0)>>, <<Num(1, 0)>>>>
\* p overwrites its argument and then returns v
Scribbles(v)  == [kind |-> "return", value |-> v, msg |-> "", writes |-> Some(Overwritten)]
Outcomes      ==
    { Raises("list index out of range"), Diverges, Scribbles(<<<<Num(1, 0)>>>>) }
        \cup { Returns(v) : v \in ReturnedValues }
Programs      == [InputGrids -> Outcomes]
NoProgram     == [g \in InputGrids |-> Raises("")]

\* A candidate source text, described by what the interpreter does with it:
\*   length  len(code)
\*   syntax  "ok", or the message of the SyntaxError ast.parse raises
\*   load    "ok", or the message of the exception exec_module raises
\*   p       "function", "not_callable" or "missing": the module's attribute p
\*   program what p(input) does, for a function
Candidate(length, syntax, load, p, program) ==
    [length |-> length, syntax |-> syntax, load |-> load, p |-> p, program |-> program]

ParserMessage     == "'(' was never closed (<unknown>, line 1)"
LoadMessage       == "name 'np' is not defined"
EmptySource       == Candidate(0, "ok", "ok", "missing", NoProgram)
SyntaxBadSource   == Candidate(28, ParserMessage, "ok", "missing", NoProgram)
NoEntrySource     == Candidate(21, "ok", "ok", "missing", NoProgram)
NotCallableSource == Candidate(5, "ok", "ok", "not_callable", NoProgram)
LoadFaultSource   == Candidate(33, "ok", LoadMessage, "missing", NoProgram)
FunctionSource(length, program) == Candidate(length, "ok", "ok", "function", program)

Last(s)  == s[Len(s)]
Range(s) == { s[i] : i \in DOMAIN s }

\* ------------------------------------------------------------ task data
Example(i, o) == [input |-> i, output |-> o]
Examples      == { Example(i, o) : i \in InputGrids, o \in ExpectedGrids }

RECURSIVE SeqsUpTo(_, _)
SeqsUpTo(S, n) ==
    IF n = 0 THEN { <<>> }
    ELSE LET shorter == SeqsUpTo(S, n - 1)
         IN  shorter \cup { Append(s, x) : s \in { t \in shorter : Len(t) = n - 1 }, x \in S }

TaskData(train, test) == [train |-> train, test |-> test]

\* ------------------------------------------------------------ variables
VARIABLES
    \* arguments of run_pipeline and the directories it works on
    max_api_calls, max_retries, retry_on_failure,
    task_paths,         \* get_task_paths(): the task ids found, in order
    task_files,         \* data_dir: task id -> content of its JSON file
    output_dir,         \* output_dir/taskNNN.py: task id -> None or the saved code
    failed_dir,         \* output_dir/failed: set of <<task id, attempt, code>>
    log_file,           \* progress.csv: the rows written, header first
    \* state of the run
    api_calls,          \* llm_generator.api_calls
    stats,              \* the summary counters
    pc,                 \* position in run_pipeline
    idx,                \* number of tasks of the slice already left
    task_id, task_data,
    attempt, success, previous_code, previous_error,
    prompt, raw_output, code,
    \* history of the run (not program state)
    stages,             \* calls made so far by the current attempt, in order
    hist,               \* finished attempts of the current task
    visits,             \* tasks reached by the loop, in order, and how
    \* SpecValidator: one call of passes_training_examples
    v_task, v_code,
    v_pc,               \* "idle", "returned", or "hung": the call never returns
    v_result,
    \* SpecParser: one call of extract_code
    p_raw,              \* raw_output, a text
    p_code              \* None, or the text extract_code returned

params  == <<max_api_calls, max_retries, retry_on_failure, task_paths, task_files>>
sinks    == <<output_dir, failed_dir, log_file>>
locals   == <<task_id, task_data, attempt, success, previous_code, previous_error,
              prompt, raw_output, code>>
history  == <<stages, hist, visits>>
pipeline == <<params, sinks, api_calls, stats, pc, idx, locals, history>>
validatorVars == <<v_task, v_code, v_pc, v_result>>
parserVars == <<p_raw, p_code>>
vars     == <<pipeline, validatorVars, parserVars>>

\* ------------------------------------------------------- CodeValidator
\* faulty variant: nothing is rejected
is_syntax_valid_lenient(c) == TRUE
\* ast.parse(code) succeeds
is_syntax_valid(c) == c.syntax = "ok"

\* validate_code_length(code, max_length = 10000): len(code) <= max_length
MaxCodeLength == 10000
validate_code_length(c, max_length) == c.length <= max_length

\* np.array(value, dtype=int) raises ValueError on a ragged list
np_array_raises(value) == \E r \in 1..Len(value) : Len(value[r]) # Len(value[1])

\* np.array(value, dtype=int): the shape, and every cell converted by int(),
\* which drops the fraction
np_array(value) ==
    [shape |-> <<Len(value), IF Len(value) = 0 THEN 0 ELSE Len(value[1])>>,
     cells |-> [r \in 1..Len(value) |-> [c \in 1..Len(value[r]) |-> value[r][c].int]]]

array_equal(a, b) == a.shape = b.shape /\ a.cells = b.cells

\* One pass of the body of the loop over the training examples: the example
\* is counted when p returns and the two arrays are equal.
example_counts(program, example) ==
    LET out == program[example.input]
    IN  /\ out.kind = "return"
        /\ ~np_array_raises(out.value)
        /\ array_equal(np_array(out.value), np_array(example.output))

\* The loop over train_examples from example i on: the examples on which p is
\* invoked and the number counted.
RECURSIVE score_examples(_, _, _)
score_examples(program, train_examples, i) ==
    IF i > Len(train_examples)
    THEN [num_correct |-> 0, invoked |-> <<>>]
    ELSE LET rest == score_examples(program, train_examples, i + 1)
         IN  [num_correct |->
                  (IF example_counts(program, train_examples[i]) THEN 1 ELSE 0)
                      + rest.num_correct,
              invoked |-> <<i>> \o rest.invoked]

\* result = program(input_grid) is a plain call, with nothing that bounds its
\* time: the call of passes_training_examples returns only if p returns or
\* raises on every training example.
validation_returns(data, c) ==
    (c.syntax = "ok" /\ c.load = "ok" /\ c.p = "function") =>
        \A i \in 1..Len(data.train) : c.program[data.train[i].input].kind # "loop"

\* The lists one pass of the loop body works with, by position: the example's
\* own input list, and the list copy.deepcopy makes of it.
ExampleInput == 1
InputCopy    == 2
loop_objects(example) == <<example.input, example.input>>

\* faulty variant: p is called on the example's own list
program_argument_shared == ExampleInput

\* input_grid = copy.deepcopy(example["input"]); result = program(input_grid)
program_argument == InputCopy

\* p writes to the list it was called on
objects_after_call(objects, out) ==
    IF out.writes = None THEN objects
    ELSE [objects EXCEPT ![program_argument] = out.writes[1]]

\* the example once the loop body has run on it
example_after_call(example, out) ==
    [example EXCEPT !.input = objects_after_call(loop_objects(example), out)[ExampleInput]]

\* task_data once passes_training_examples(task_data, code) has returned
data_after_validation(data, c) ==
    IF c.syntax = "ok" /\ c.load = "ok" /\ c.p = "function"
    THEN [data EXCEPT !.train =
             [i \in 1..Len(data.train) |->
                 example_after_call(data.train[i], c.program[data.train[i].input])]]
    ELSE data

\* faulty variant: nothing passes unless p was run on some example
VerdictNeedsExamples(passed, message, invoked, tmp_removed) ==
    [passed |-> passed /\ invoked # <<>>, message |-> message, invoked |-> invoked,
     tmp_removed |-> tmp_removed, module_registered |-> TRUE]

Verdict(passed, message, invoked, tmp_removed) ==
    [passed |-> passed, message |-> message, invoked |-> invoked,
     tmp_removed |-> tmp_removed, module_registered |-> TRUE]

passes_training_examples(data, c) ==
    IF c.syntax # "ok"      THEN Verdict(FALSE, c.syntax, <<>>, FALSE)
    ELSE IF c.load # "ok"   THEN Verdict(FALSE, c.load, <<>>, FALSE)
    ELSE IF c.p = "missing" THEN Verdict(FALSE, "Function p() not found", <<>>, TRUE)
    ELSE IF c.p # "function" THEN Verdict(FALSE, "p is not callable", <<>>, TRUE)
    ELSE LET train_examples == data.train
             total  == Len(train_examples)
             scored == score_examples(c.program, train_examples, 1)
         IN  Verdict(scored.num_correct = total,
                     "Passed " \o ToString(scored.num_correct) \o "/" \o ToString(total)
                         \o " train examples",
                     scored.invoked, TRUE)

\* -------------------------------------------------------- PromptBuilder
\* bool(x) of an optional text or candidate: None and the empty text are false
CodeTruthy(c) == c # None /\ c[1].length > 0
TextTruthy(t) == t # None /\ t[1] # ""

\* test_examples[:3]
TestLimit == 3
Head3(s) == SubSeq(s, 1, IF Len(s) < TestLimit THEN Len(s) ELSE TestLimit)

\* faulty variant: the previous attempt is ignored
build_prompt_initial(tid, train_examples, test_examples, prev_code, error_message) ==
    [template |-> "initial", previous_code |-> None, error_message |-> None,
     train_examples |-> train_examples,
     test_examples |-> Head3(test_examples)]

\* The prompt, as the template used and the values formatted into it.
\* json.dumps keeps the examples and their order, so the formatted examples
\* are the lists themselves.
build_prompt(tid, train_examples, test_examples, prev_code, error_message) ==
    IF CodeTruthy(prev_code) /\ TextTruthy(error_message)
    THEN [template |-> "refinement",
          previous_code |-> prev_code, error_message |-> error_message,
          train_examples |-> train_examples, test_examples |-> Head3(test_examples)]
    ELSE [template |-> "initial",
          previous_code |-> None, error_message |-> None,
          train_examples |-> train_examples, test_examples |-> Head3(test_examples)]

\* ------------------------------------------------------ LLMCodeGenerator
\* time.sleep(1), in seconds
RateLimitDelay == 1
\* if self.api_calls > 0: time.sleep(1): what generate waits before the request
generate_delay(calls) == IF calls > 0 THEN RateLimitDelay ELSE 0

\* --------------------------------------------------------- OutputParser
\* In the run the response content is None or a text holding one candidate;
\* re.findall raises TypeError on None.
ExtractMessage == "expected string or bytes-like object"
extract_code_raises(raw) == raw = None
extract_code(raw) == raw[1]

\* extract_code on the text itself.  A text is a list of pieces: the fence
\* (three backticks), the word python, a blank, a newline, or any other
\* character.
Fence == "fence"
Py    == "python"
Blank == " "
Nl    == "newline"
Other == "x"
Pieces     == { Fence, Py, Blank, Nl, Other }
Whitespace == { Blank, Nl }

Min(S) == CHOOSE x \in S : \A y \in S : x <= y

\* str.strip()
RECURSIVE lstrip(_)
lstrip(s) == IF s # <<>> /\ Head(s) \in Whitespace THEN lstrip(Tail(s)) ELSE s
RECURSIVE rstrip(_)
rstrip(s) ==
    IF s # <<>> /\ s[Len(s)] \in Whitespace THEN rstrip(SubSeq(s, 1, Len(s) - 1)) ELSE s

\* faulty variant: only the left end is trimmed
strip_left(s) == lstrip(s)

strip(s) == rstrip(lstrip(s))

\* the first fence after position i, or 0
closing_fence(s, i) ==
    LET later == { j \in (i + 1)..Len(s) : s[j] = Fence }
    IN  IF later = {} THEN 0 ELSE Min(later)

\* re.findall(fence python (.*?) fence, raw_output, re.DOTALL), its first match:
\* the leftmost fence followed at once by python and later by a fence; the
\* group runs to the nearest such fence
findall_python(s) ==
    LET starts == { i \in 1..(Len(s) - 1) :
                       s[i] = Fence /\ s[i + 1] = Py /\ closing_fence(s, i + 1) # 0 }
    IN  IF starts = {} THEN None
        ELSE LET i == Min(starts)
             IN  Some(SubSeq(s, i + 2, closing_fence(s, i + 1) - 1))

\* re.findall(fence (.*?) fence, raw_output, re.DOTALL), its first match
findall_generic(s) ==
    LET starts == { i \in 1..Len(s) : s[i] = Fence /\ closing_fence(s, i) # 0 }
    IN  IF starts = {} THEN None
        ELSE LET i == Min(starts)
             IN  Some(SubSeq(s, i + 1, closing_fence(s, i) - 1))

\* the end of the run of whitespace that starts at position i
RECURSIVE whitespace_end(_, _)
whitespace_end(s, i) ==
    IF i <= Len(s) /\ s[i] \in Whitespace THEN whitespace_end(s, i + 1) ELSE i

\* re.sub(r'^python\s*', '', code, flags=re.MULTILINE), from position i on:
\* at the start of every line, python and the whitespace after it are dropped
RECURSIVE sub_python(_, _)
sub_python(s, i) ==
    IF i > Len(s) THEN <<>>
    ELSE IF s[i] = Py /\ (i = 1 \/ s[i - 1] = Nl)
         THEN sub_python(s, whitespace_end(s, i + 1))
         ELSE <<s[i]>> \o sub_python(s, i + 1)

extract_code_text(raw_text) ==
    LET python_block_match == findall_python(raw_text)
        code_block_match   == findall_generic(raw_text)
        text == IF python_block_match # None THEN strip(python_block_match[1])
                ELSE IF code_block_match # None
                     THEN sub_python(strip(code_block_match[1]), 1)
                     ELSE strip(raw_text)
    IN  strip(text)

\* ----------------------------------------------------------- FileWriter
\* faulty variant: the existence check looks at a path that never exists
file_exists_never(tid) == FALSE
file_exists(tid) == output_dir[tid] # None

\* faulty variant: the file is written under a name that is not the task's
save_code_elsewhere(tid, c) == output_dir

\* output_dir/task{tid:03d}.py, opened with 'w', holds the code
save_code(tid, c) == [output_dir EXCEPT ![tid] = Some(c)]

\* ------------------------------------------------------ ProgressTracker
LogHeader == <<"timestamp", "task_id", "status", "code_length",
               "validation_passed", "api_calls", "details">>
\* faulty variant: status and details change places
LogRowSwapped(tid, status, code_length, validation_passed, details) ==
    <<"now", tid, details, code_length, validation_passed, status>>
\* the row ProgressTracker.log writes
LogRow(tid, status, code_length, validation_passed, details) ==
    <<"now", tid, status, code_length, validation_passed, details>>
RowTask(row)   == row[2]
RowStatus(row) == row[3]
\* the rows after the header
LogRows == Tail(log_file)
\* csv.DictReader: the value a row has under a column name of the header, by
\* position; a row shorter than the header has None under the columns it lacks
ColumnIndex(name) == CHOOSE i \in 1..Len(LogHeader) : LogHeader[i] = name
read_column(row, name) ==
    IF ColumnIndex(name) <= Len(row) THEN Some(row[ColumnIndex(name)]) ELSE None
\* get_stats: the counter the first matching test of the if-chain adds to,
\* for the statuses run_pipeline writes
status_counter(status) ==
    CASE status = "validated_success" -> "success"
      [] status = "syntax_error"      -> "failed_syntax"
      [] status = "failed_validation" -> "failed_validation"
      [] status = "exception"         -> "failed_exception"
      [] OTHER                        -> "total only"

\* ------------------------------------------------------------- the run
\* The tasks and the responses of a run are drawn from these.
G0 == <<<<Num(0, 0)>>>>
G1 == <<<<Num(1, 0)>>>>
Column10 == <<<<Num(1, 0)>>, <<Num(0, 0)>>>>
TaskA == TaskData(<<Example(G0, G1), Example(G1, Column10)>>,
                  <<Example(G0, G1), Example(G1, G0), Example(G1, G1), Example(G0, G0)>>)
TaskB == TaskData(<<>>, <<>>)
\* a task file: valid JSON holding a task, or a file json.load rejects
FileContents == { [valid |-> TRUE, data |-> TaskA], [valid |-> TRUE, data |-> TaskB],
                  [valid |-> FALSE, data |-> TaskB] }

Solver     == [g \in InputGrids |-> IF g = G0 THEN Returns(G1) ELSE Returns(Column10)]
Partial    == [g \in InputGrids |-> IF g = G0 THEN Scribbles(G1)
                                    ELSE Raises("list index out of range")]
RunCandidates ==
    { SyntaxBadSource, EmptySource, FunctionSource(30, Solver), FunctionSource(30, Partial),
      FunctionSource(10001, Solver) }
\* response.choices[0].message.content: a text, or None
Responses     == { None } \cup { Some(c) : c \in RunCandidates }
ServiceErrors == { "rate limit exceeded" }

Stats0  == [success |-> 0, syntax_error |-> 0, validation_failed |-> 0,
            exception |-> 0, skipped |-> 0]
Idle    == /\ v_task = TaskB /\ v_code = EmptySource /\ v_pc = "idle" /\ v_result = None
ParserIdle == p_raw = <<>> /\ p_code = None

Init ==
    /\ max_api_calls \in 0..MaxCalls
    /\ max_retries \in {0, MaxRetries}
    \* without retries configured, retry_on_failure changes nothing
    /\ retry_on_failure \in IF max_retries = MaxRetries THEN BOOLEAN ELSE { TRUE }
    /\ task_paths = [i \in 1..MaxTasks |-> i]
    /\ task_files \in [1..Len(task_paths) -> FileContents]
    /\ output_dir \in [1..Len(task_paths) -> {None, Some(FunctionSource(30, Solver))}]
    \* the task file of a solved task is never read: one content stands for all
    /\ \A i \in 1..Len(task_paths) :
           output_dir[i] # None => task_files[i] = [valid |-> TRUE, data |-> TaskA]
    \* at most one file of the directory is unreadable or has no training example
    /\ Cardinality({ i \in 1..Len(task_paths) : task_files[i].data = TaskB }) <= 1
    /\ failed_dir = {}
    /\ log_file = <<LogHeader>>
    /\ api_calls = 0
    /\ stats = Stats0
    /\ pc = "loop"
    /\ idx = 0
    /\ task_id = 0 /\ task_data = TaskB
    /\ attempt = 0 /\ success = FALSE
    /\ previous_code = None /\ previous_error = None
    /\ prompt = build_prompt(0, <<>>, <<>>, None, None)
    /\ raw_output = None /\ code = EmptySource
    /\ stages = <<>> /\ hist = <<>> /\ visits = <<>>
    /\ Idle
    /\ ParserIdle

\* task_paths[:max_api_calls]
Slice == SubSeq(task_paths, 1,
                IF Len(task_paths) < max_api_calls THEN Len(task_paths) ELSE max_api_calls)

\* faulty variant: the budget check lets one more task start
BudgetLeftInclusive == api_calls <= max_api_calls

\* the budget check at the head of the loop body
BudgetLeft == api_calls < max_api_calls

Visit(tid, how) == [task_id |-> tid, how |-> how]

\* for ... in enumerate(task_paths[:max_api_calls], 1): no task is left
LoopExhausted ==
    /\ pc = "loop" /\ idx = Len(Slice)
    /\ pc' = "done"
    /\ UNCHANGED <<params, sinks, api_calls, stats, idx, locals, history, validatorVars, parserVars>>

\* if llm_generator.api_calls >= max_api_calls: break
BudgetStop ==
    /\ pc = "loop" /\ idx < Len(Slice)
    /\ ~BudgetLeft
    /\ pc' = "done"
    /\ UNCHANGED <<params, sinks, api_calls, stats, idx, locals, history, validatorVars, parserVars>>

\* if file_writer.file_exists(task_id): stats['skipped'] += 1; continue
SkipTask ==
    /\ pc = "loop" /\ idx < Len(Slice)
    /\ BudgetLeft
    /\ LET tid == Slice[idx + 1] IN
        /\ file_exists(tid)
        /\ task_id' = tid
        /\ visits' = Append(visits, Visit(tid, "skipped"))
    /\ stats' = [stats EXCEPT !.skipped = @ + 1]
    /\ idx' = idx + 1
    /\ UNCHANGED <<params, sinks, api_calls, pc, task_data, attempt, success, previous_code,
                   previous_error, prompt, raw_output, code, stages, hist, validatorVars, parserVars>>

\* task_parser.load_task raises: the except of the task loop counts it
LoadTaskFails ==
    /\ pc = "loop" /\ idx < Len(Slice)
    /\ BudgetLeft
    /\ LET tid == Slice[idx + 1] IN
        /\ ~file_exists(tid)
        /\ ~task_files[tid].valid
        /\ task_id' = tid
        /\ visits' = Append(visits, Visit(tid, "exception"))
    /\ stats' = [stats EXCEPT !.exception = @ + 1]
    /\ idx' = idx + 1
    /\ UNCHANGED <<params, sinks, api_calls, pc, task_data, attempt, success, previous_code,
                   previous_error, prompt, raw_output, code, stages, hist, validatorVars, parserVars>>

\* faulty variant: what the previous task left is carried over
carried_attempt_state == <<previous_code, previous_error>>
\* previous_code = None; previous_error = None, before the attempt loop
fresh_attempt_state == <<None, None>>

\* the task is loaded and its attempt loop begins
StartTask ==
    /\ pc = "loop" /\ idx < Len(Slice)
    /\ BudgetLeft
    /\ LET tid == Slice[idx + 1] IN
        /\ ~file_exists(tid)
        /\ task_files[tid].valid
        /\ task_id' = tid
        /\ task_data' = task_files[tid].data
        /\ visits' = Append(visits, Visit(tid, "attempted"))
    /\ success' = FALSE
    /\ previous_code' = fresh_attempt_state[1]
    /\ previous_error' = fresh_attempt_state[2]
    /\ attempt' = 0
    /\ pc' = "attempt"
    /\ stages' = <<>>
    /\ hist' = <<>>
    /\ UNCHANGED <<params, sinks, api_calls, stats, idx, prompt, raw_output, code,
                   validatorVars, parserVars>>

\* The prompt of the current attempt: without the previous attempt on
\* attempt 0, with previous_code and previous_error afterwards.
AttemptPrompt ==
    IF attempt = 0
    THEN build_prompt(task_id, task_data.train, task_data.test, None, None)
    ELSE build_prompt(task_id, task_data.train, task_data.test, previous_code, previous_error)

\* One finished attempt, for the history: its prompt, how it ended, the
\* candidate it extracted (None without one), the feedback it left, the
\* calls it made and what its call of generate waited before the request.
Attempt(outcome, candidate, feedback, done) ==
    [attempt |-> attempt, prompt |-> AttemptPrompt, outcome |-> outcome, code |-> candidate,
     feedback |-> feedback, stages |-> done, delay |-> generate_delay(api_calls)]

\* for attempt in range(max_retries + 1)
AttemptRange == 0..max_retries

\* faulty variant: the retry test gives up one attempt early
RetryAllowedEarly == retry_on_failure /\ attempt + 1 < max_retries

\* if retry_on_failure and attempt < max_retries: continue (else break)
RetryAllowed == retry_on_failure /\ attempt < max_retries

\* The end of an attempt that was not accepted: the next attempt, or the end
\* of the attempt loop and of the body of the task loop.
RetryOrBreak ==
    IF RetryAllowed /\ attempt + 1 \in AttemptRange
    THEN attempt' = attempt + 1 /\ pc' = "attempt" /\ idx' = idx
    ELSE attempt' = attempt /\ pc' = "loop" /\ idx' = idx + 1

\* faulty variant: no handler inside the attempt loop: the error reaches the handler
\* of the task loop, which counts it and goes to the next task
ExceptionEscapes(msg, done) ==
    /\ stats' = [stats EXCEPT !.exception = @ + 1]
    /\ UNCHANGED <<previous_error, previous_code, log_file, hist, success, attempt>>
    /\ stages' = done
    /\ pc' = "loop"
    /\ idx' = idx + 1

\* faulty variant: the handler also forgets the previous candidate
ExceptionBranchForgets(msg, done) ==
    /\ stats' = [stats EXCEPT !.exception = @ + 1]
    /\ previous_error' = Some("Exception: " \o msg)
    /\ previous_code' = None
    /\ log_file' = Append(log_file, LogRow(task_id, "exception", 0, FALSE, msg))
    /\ hist' = Append(hist, Attempt("exception", None, Some("Exception: " \o msg), done))
    /\ stages' = done
    /\ success' = success
    /\ RetryOrBreak

\* except Exception as e, inside the attempt loop
ExceptionBranch(msg, done) ==
    /\ stats' = [stats EXCEPT !.exception = @ + 1]
    /\ previous_error' = Some("Exception: " \o msg)
    /\ previous_code' = previous_code
    /\ log_file' = Append(log_file, LogRow(task_id, "exception", 0, FALSE, msg))
    /\ hist' = Append(hist, Attempt("exception", None, Some("Exception: " \o msg), done))
    /\ stages' = done
    /\ success' = success
    /\ RetryOrBreak

\* An attempt in which llm_generator.generate raises: the request failed and
\* the counter is not incremented.
GenerateRaises ==
    /\ pc = "attempt"
    /\ prompt' = AttemptPrompt
    /\ \E msg \in ServiceErrors : ExceptionBranch(msg, <<"build_prompt", "generate">>)
    /\ UNCHANGED <<params, output_dir, failed_dir, api_calls, task_id, task_data,
                   raw_output, code, visits, validatorVars, parserVars>>

\* An attempt in which generate returns and output_parser.extract_code raises.
ExtractCodeRaises ==
    /\ pc = "attempt"
    /\ prompt' = AttemptPrompt
    /\ \E r \in Responses :
        /\ extract_code_raises(r)
        /\ raw_output' = r
    /\ api_calls' = api_calls + 1
    /\ ExceptionBranch(ExtractMessage, <<"build_prompt", "generate", "extract_code">>)
    /\ UNCHANGED <<params, output_dir, failed_dir, task_id, task_data, code, visits,
                   validatorVars, parserVars>>

SyntaxFeedback == "Syntax error: Code has invalid Python syntax"

\* An attempt whose candidate is_syntax_valid rejects.
SyntaxRejected ==
    /\ pc = "attempt"
    /\ prompt' = AttemptPrompt
    /\ \E r \in Responses :
        /\ ~extract_code_raises(r)
        /\ ~is_syntax_valid(extract_code(r))
        /\ raw_output' = r
        /\ code' = extract_code(r)
    /\ api_calls' = api_calls + 1
    /\ stats' = [stats EXCEPT !.syntax_error = @ + 1]
    /\ log_file' = Append(log_file, LogRow(task_id, "syntax_error", code'.length, FALSE, ""))
    /\ previous_code' = Some(code')
    /\ previous_error' = Some(SyntaxFeedback)
    /\ stages' = <<"build_prompt", "generate", "extract_code", "is_syntax_valid">>
    /\ hist' = Append(hist, Attempt("syntax_error", Some(code'), Some(SyntaxFeedback), stages'))
    /\ RetryOrBreak
    /\ UNCHANGED <<params, output_dir, failed_dir, task_id, task_data, success, visits,
                   validatorVars, parserVars>>

\* An attempt whose candidate passes_training_examples accepts:
\* save_code, log, stats['success'] += 1, success = True, break.
ValidationPassed ==
    /\ pc = "attempt"
    /\ prompt' = AttemptPrompt
    /\ \E r \in Responses :
        /\ ~extract_code_raises(r)
        /\ is_syntax_valid(extract_code(r))
        /\ passes_training_examples(task_data, extract_code(r)).passed
        /\ raw_output' = r
        /\ code' = extract_code(r)
    /\ api_calls' = api_calls + 1
    /\ output_dir' = save_code(task_id, code')
    /\ log_file' = Append(log_file,
           LogRow(task_id, "validated_success", code'.length, TRUE,
                  "api_calls=" \o ToString(api_calls') \o ",attempt=" \o ToString(attempt + 1)))
    /\ stages' = <<"build_prompt", "generate", "extract_code", "is_syntax_valid",
                   "passes_training_examples", "save_code">>
    /\ hist' = Append(hist, Attempt("accepted", Some(code'),
                   Some(passes_training_examples(task_data, code').message), stages'))
    /\ stats' = [stats EXCEPT !.success = @ + 1]
    /\ success' = TRUE
    /\ task_data' = data_after_validation(task_data, code')
    /\ pc' = "loop"
    /\ idx' = idx + 1
    /\ UNCHANGED <<params, failed_dir, task_id, attempt, previous_code,
                   previous_error, visits, validatorVars, parserVars>>

\* An attempt whose candidate passes_training_examples does not accept: the
\* candidate goes to output_dir/failed and becomes the previous attempt.
ValidationFailed ==
    /\ pc = "attempt"
    /\ prompt' = AttemptPrompt
    /\ \E r \in Responses :
        /\ ~extract_code_raises(r)
        /\ is_syntax_valid(extract_code(r))
        /\ ~passes_training_examples(task_data, extract_code(r)).passed
        /\ raw_output' = r
        /\ code' = extract_code(r)
    /\ api_calls' = api_calls + 1
    /\ LET message == passes_training_examples(task_data, code').message IN
        /\ previous_error' = Some(message)
        /\ log_file' = Append(log_file,
               LogRow(task_id, "failed_validation", code'.length, FALSE, message))
        /\ stages' = <<"build_prompt", "generate", "extract_code", "is_syntax_valid",
                       "passes_training_examples">>
        /\ hist' = Append(hist, Attempt("failed_validation", Some(code'), Some(message),
                                        stages'))
    /\ stats' = [stats EXCEPT !.validation_failed = @ + 1]
    /\ failed_dir' = failed_dir \cup { <<task_id, attempt + 1, code'>> }
    /\ previous_code' = Some(code')
    /\ task_data' = data_after_validation(task_data, code')
    /\ RetryOrBreak
    /\ UNCHANGED <<params, output_dir, task_id, success, visits, validatorVars, parserVars>>

Next ==
    \/ LoopExhausted \/ BudgetStop \/ SkipTask \/ LoadTaskFails \/ StartTask
    \/ GenerateRaises \/ ExtractCodeRaises
    \/ SyntaxRejected \/ ValidationPassed \/ ValidationFailed

Spec == Init /\ [][Next]_vars

\* ---------------------------------------------------------- SpecValidator
ValidatorCandidates ==
    { EmptySource, SyntaxBadSource, NoEntrySource, NotCallableSource, LoadFaultSource }
        \cup { FunctionSource(30, pr) : pr \in Programs }

InitValidator ==
    /\ max_api_calls = 0 /\ max_retries = 0 /\ retry_on_failure = FALSE
    /\ task_paths = <<>> /\ task_files = <<>> /\ output_dir = <<>>
    /\ failed_dir = {} /\ log_file = <<LogHeader>>
    /\ api_calls = 0 /\ stats = Stats0 /\ pc = "done" /\ idx = 0
    /\ task_id = 0 /\ task_data = TaskB
    /\ attempt = 0 /\ success = FALSE
    /\ previous_code = None /\ previous_error = None
    /\ prompt = build_prompt(0, <<>>, <<>>, None, None)
    /\ raw_output = None /\ code = EmptySource
    /\ stages = <<>> /\ hist = <<>> /\ visits = <<>>
    /\ v_task \in { TaskData(train, <<>>) : train \in SeqsUpTo(Examples, MaxTrain) }
    /\ v_code \in ValidatorCandidates
    /\ v_pc = "idle"
    /\ v_result = None
    /\ ParserIdle

\* code_validator.passes_training_examples(task_data, code)
Validate ==
    /\ v_pc = "idle"
    /\ IF validation_returns(v_task, v_code)
       THEN /\ v_pc' = "returned"
            /\ v_result' = Some(passes_training_examples(v_task, v_code))
            /\ v_task' = data_after_validation(v_task, v_code)
       ELSE v_pc' = "hung" /\ v_result' = None /\ v_task' = v_task
    /\ UNCHANGED <<pipeline, v_code, parserVars>>

NextValidator == Validate

SpecValidator == InitValidator /\ [][NextValidator]_vars

\* ------------------------------------------------------------ SpecParser
Texts == UNION { [1..n -> Pieces] : n \in 0..MaxText }

InitParser ==
    /\ max_api_calls = 0 /\ max_retries = 0 /\ retry_on_failure = FALSE
    /\ task_paths = <<>> /\ task_files = <<>> /\ output_dir = <<>>
    /\ failed_dir = {} /\ log_file = <<LogHeader>>
    /\ api_calls = 0 /\ stats = Stats0 /\ pc = "done" /\ idx = 0
    /\ task_id = 0 /\ task_data = TaskB
    /\ attempt = 0 /\ success = FALSE
    /\ previous_code = None /\ previous_error = None
    /\ prompt = build_prompt(0, <<>>, <<>>, None, None)
    /\ raw_output = None /\ code = EmptySource
    /\ stages = <<>> /\ hist = <<>> /\ visits = <<>>
    /\ Idle
    /\ p_raw \in Texts
    /\ p_code = None

\* output_parser.extract_code(raw_output)
Extract ==
    /\ p_code = None
    /\ p_code' = Some(extract_code_text(p_raw))
    /\ UNCHANGED <<pipeline, validatorVars, p_raw>>

NextParser == Extract

SpecParser == InitParser /\ [][NextParser]_vars

\* ----------------------------------------------------------- SpecAttempts
\* run_pipeline with a directory of one unsolved task, a budget of one call
\* (the budget is looked at only before the task) and retries switched on.
InitAttempts ==
    /\ max_api_calls = 1
    /\ max_retries = MaxLoopRetries
    /\ retry_on_failure = TRUE
    /\ task_paths = <<1>>
    /\ task_files \in [1..Len(task_paths) -> { [valid |-> TRUE, data |-> TaskA],
                                               [valid |-> TRUE, data |-> TaskB] }]
    /\ output_dir = [i \in 1..Len(task_paths) |-> None]
    /\ failed_dir = {}
    /\ log_file = <<LogHeader>>
    /\ api_calls = 0
    /\ stats = Stats0
    /\ pc = "loop"
    /\ idx = 0
    /\ task_id = 0 /\ task_data = TaskB
    /\ attempt = 0 /\ success = FALSE
    /\ previous_code = None /\ previous_error = None
    /\ prompt = build_prompt(0, <<>>, <<>>, None, None)
    /\ raw_output = None /\ code = EmptySource
    /\ stages = <<>> /\ hist = <<>> /\ visits = <<>>
    /\ Idle
    /\ ParserIdle

NextAttempts ==
    \/ StartTask
    \/ GenerateRaises \/ ExtractCodeRaises
    \/ SyntaxRejected \/ ValidationPassed \/ ValidationFailed
    \/ LoopExhausted

SpecAttempts == InitAttempts /\ [][NextAttempts]_vars

\* ================================================================ claims

\* ---- C1
\* C1: with retry_on_failure, a task gets at most max_retries + 1 calls of
\* generate; its attempt loop ends exactly at an accepted attempt or when
\* attempt max_retries + 1 has ended without acceptance, never earlier, and
\* no attempt follows an accepted one.
GenerateCalls ==
    Cardinality({ i \in 1..Len(hist) : "generate" \in Range(hist[i].stages) })
C1_AttemptBound ==
    retry_on_failure =>
        /\ GenerateCalls <= max_retries + 1
        /\ Len(hist) <= max_retries + 1
        /\ \A i \in 1..Len(hist) : hist[i].attempt = i - 1
        /\ \A i \in 1..Len(hist) : hist[i].outcome = "accepted" => i = Len(hist)
        /\ pc = "attempt" =>
              /\ Len(hist) = attempt /\ attempt <= max_retries
              /\ \A i \in 1..Len(hist) : hist[i].outcome # "accepted"
        /\ (pc # "attempt" /\ hist # <<>>) =>
              \/ Last(hist).outcome = "accepted"
              \/ Len(hist) = max_retries + 1
\* a task that used all of its max_retries + 1 >= 2 attempts without acceptance
C1_Witness ==
    /\ retry_on_failure /\ max_retries >= 1
    /\ pc = "loop" /\ Len(hist) = max_retries + 1
    /\ Last(hist).outcome # "accepted"
    /\ GenerateCalls = max_retries + 1

\* ---- C3
\* C3: when the loop reaches a task whose solution file exists, the step it
\* takes makes no generate call, no validation and no write to any sink,
\* counts the task as skipped and goes to the next task.
C3_IdempotentSkip ==
    [][ (/\ pc = "loop" /\ idx < Len(Slice)
         /\ api_calls < max_api_calls
         /\ output_dir[Slice[idx + 1]] # None)
        => (/\ api_calls' = api_calls
            /\ output_dir' = output_dir /\ failed_dir' = failed_dir /\ log_file' = log_file
            /\ hist' = hist /\ stages' = stages
            /\ stats' = [stats EXCEPT !.skipped = @ + 1]
            /\ visits' = Append(visits, Visit(Slice[idx + 1], "skipped"))
            /\ idx' = idx + 1 /\ pc' = "loop") ]_vars
\* a solved task skipped right after a task that was attempted
C3_Witness ==
    /\ Len(visits) = 2
    /\ visits[1].how = "attempted" /\ visits[2].how = "skipped"
    /\ output_dir[visits[2].task_id] # None
    /\ stats.skipped = 1

C8_GenerateFailure ==
    [][ (pc = "attempt" /\ api_calls' = api_calls)
        => (/\ stages' = <<"build_prompt", "generate">>
            /\ code' = code /\ raw_output' = raw_output
            /\ output_dir' = output_dir /\ failed_dir' = failed_dir
            /\ Len(hist') = Len(hist) + 1
            /\ Last(hist').outcome = "exception" /\ Last(hist').attempt = attempt
            /\ \E msg \in ServiceErrors :
                  /\ previous_error' = Some("Exception: " \o msg)
                  /\ log_file' = Append(log_file, LogRow(task_id, "exception", 0, FALSE, msg))
            /\ stats' = [stats EXCEPT !.exception = @ + 1]
            /\ success' = FALSE /\ visits' = visits /\ task_id' = task_id
            /\ IF retry_on_failure /\ attempt < max_retries
               THEN pc' = "attempt" /\ attempt' = attempt + 1 /\ idx' = idx
               ELSE pc' = "loop" /\ idx' = idx + 1) ]_vars
\* a failed generate call being retried
C8_Witness ==
    /\ pc = "attempt" /\ attempt >= 1
    /\ Last(hist).outcome = "exception"
    /\ Last(hist).stages = <<"build_prompt", "generate">>
    /\ \E msg \in ServiceErrors : previous_error = Some("Exception: " \o msg)

\* ---- C2 (SpecValidator)
\* the candidate loads and its p is a function
Callable(c) == c.syntax = "ok" /\ c.load = "ok" /\ c.p = "function"
\* the training examples on which p returns exactly the expected output
EqualExamples(data, c) ==
    { i \in 1..Len(data.train) :
          /\ c.program[data.train[i].input].kind = "return"
          /\ c.program[data.train[i].input].value = data.train[i].output }
PassedMessage(k, n) == "Passed " \o ToString(k) \o "/" \o ToString(n) \o " train examples"

\* C2: for a candidate with a callable p, passed is True exactly when on every
\* training example the value p returns equals the expected output, and the
\* message reports the k of n examples on which it does.
C2_AcceptedIffAllEqual ==
    (v_result # None /\ Callable(v_code)) =>
        LET n == Len(v_task.train)
            k == Cardinality(EqualExamples(v_task, v_code))
        IN  /\ v_result[1].passed <=> k = n
            /\ v_result[1].message = PassedMessage(k, n)

\* ---- C4 (SpecValidator)
\* C4: when p raises on some training example, p is still invoked on every
\* training example, and the tally is the number of examples whose result
\* equalled the expected output, out of all training examples.
C4_FaultIsolation ==
    (/\ v_result # None /\ Callable(v_code)
     /\ \E i \in 1..Len(v_task.train) :
           v_code.program[v_task.train[i].input].kind = "raise") =>
        /\ v_result[1].invoked = [i \in 1..Len(v_task.train) |-> i]
        /\ v_result[1].message =
              PassedMessage(Cardinality(EqualExamples(v_task, v_code)), Len(v_task.train))

\* ---- C6
\* C6: the run ends with a task of task_paths not reached only if the counter
\* had reached max_api_calls.
C6_StopsOnlyOnBudget ==
    pc = "done" =>
        \/ Len(visits) = Len(task_paths)
        \/ api_calls >= max_api_calls

\* ---- C7
\* C7: after an attempt that was not accepted, the prompt of the next attempt
\* is the refinement prompt, with that attempt's candidate and feedback; the
\* first attempt has the initial prompt.
C7_RefinementAfterFailure ==
    pc = "attempt" =>
        IF attempt = 0
        THEN AttemptPrompt.template = "initial"
        ELSE /\ AttemptPrompt.template = "refinement"
             /\ AttemptPrompt.error_message = Last(hist).feedback
             /\ Last(hist).code # None => AttemptPrompt.previous_code = Last(hist).code

C10_LongSourceRejected ==
    /\ \A i \in 1..Len(hist) :
          (hist[i].code # None /\ ~validate_code_length(hist[i].code[1], MaxCodeLength)) =>
              /\ hist[i].outcome = "syntax_error"
              /\ "passes_training_examples" \notin Range(hist[i].stages)
    /\ \A t \in DOMAIN output_dir :
          output_dir[t] # None => validate_code_length(output_dir[t][1], MaxCodeLength)

\* ---- C11 (SpecValidator)
\* C11: every call of passes_training_examples returns a verdict; when p does
\* not return on a training example, that example is not counted and every
\* training example is still invoked.
C11_ValidationReturns ==
    v_pc # "idle" =>
        /\ v_pc = "returned" /\ v_result # None
        /\ Callable(v_code) =>
              /\ v_result[1].invoked = [i \in 1..Len(v_task.train) |-> i]
              /\ \A i \in 1..Len(v_task.train) :
                    v_code.program[v_task.train[i].input].kind = "loop" => ~v_result[1].passed

\* ---- C12
\* the task the loop is working on, as load_task read it
LoadedTask == task_files[task_id].data
\* C12: while a task is attempted, task_data equals the task as loaded, and
\* the examples in the prompt of every attempt are the loaded ones, whatever
\* the candidates validated before did to their argument.
C12_TaskUnchanged ==
    (visits # <<>> /\ Last(visits).how = "attempted") =>
        /\ task_data = LoadedTask
        /\ \A i \in 1..Len(hist) :
              /\ hist[i].prompt.train_examples = LoadedTask.train
              /\ hist[i].prompt.test_examples = Head3(LoadedTask.test)
\* an attempt issued after the validation of a candidate that overwrites its argument
C12_Witness ==
    /\ Len(hist) >= 2
    /\ hist[1].outcome = "failed_validation"
    /\ \E i \in 1..Len(task_data.train) :
          hist[1].code[1].program[task_data.train[i].input].writes # None
    /\ hist[2].prompt.template = "refinement"
    /\ "passes_training_examples" \in Range(hist[2].stages)

\* ---- C13
\* C13: a step writes to output_dir exactly when it is an attempt whose
\* candidate passes_training_examples accepted, and what it writes is that
\* candidate, as the solution of the task attempted; attempts ending in a
\* syntax error, a failed validation or an exception write nothing there; a
\* solution file, once written, is not written again in the run.
C13_SavedIffPassed ==
    [][ LET ended    == Len(hist') = Len(hist) + 1
            last     == Last(hist')
            accepted == /\ ended /\ last.code # None
                        /\ is_syntax_valid(last.code[1])
                        /\ passes_training_examples(task_data, last.code[1]).passed
        IN  /\ (output_dir' # output_dir) <=> accepted
            /\ accepted =>
                  /\ output_dir[task_id] = None
                  /\ output_dir' = [output_dir EXCEPT ![task_id] = last.code]
                  /\ last.outcome = "accepted"
            /\ (ended /\ last.outcome \in {"syntax_error", "failed_validation", "exception"})
                  => output_dir' = output_dir
            /\ \A t \in DOMAIN output_dir :
                  output_dir[t] # None => output_dir'[t] = output_dir[t] ]_vars
\* a task solved at its second attempt: the first candidate went to failed/,
\* only the second to the solution file
C13_Witness ==
    /\ Len(hist) = 2
    /\ hist[1].outcome = "failed_validation" /\ hist[2].outcome = "accepted"
    /\ output_dir[task_id] = hist[2].code
    /\ hist[1].code # hist[2].code
    /\ <<task_id, 1, hist[1].code[1]>> \in failed_dir

\* ---- C14
\* the tasks whose processing raised outside the attempt loop
FaultedVisits == { i \in 1..Len(visits) : visits[i].how = "exception" }
\* the attempts logged as exceptions
ExceptionRows == { i \in 1..Len(LogRows) : RowStatus(LogRows[i]) = "exception" }
\* C14: a task whose record cannot be loaded adds one to the exception
\* counter and writes nothing, and the run goes on with the next task of
\* task_paths: it does not end, with budget left, right after that task.
C14_FaultContinues ==
    /\ stats.exception = Cardinality(FaultedVisits) + Cardinality(ExceptionRows)
    /\ \A i \in FaultedVisits :
          (pc = "done" /\ api_calls < max_api_calls /\ visits[i].task_id # Last(task_paths))
              => Len(visits) > i

\* ---- C15
StatsSum ==
    stats.success + stats.syntax_error + stats.validation_failed + stats.exception
        + stats.skipped
\* the tasks accepted in the run: one validated_success row each
AcceptedRows == { i \in 1..Len(LogRows) : RowStatus(LogRows[i]) = "validated_success" }
\* C15: at the end of the run the counters add up to the number of tasks
\* visited, and success is the number of tasks accepted.
C15_CountersPerTask ==
    pc = "done" =>
        /\ StatsSum = Len(visits)
        /\ stats.success = Cardinality(AcceptedRows)

\* ---- C16 (SpecParser)
FencePositions(s) == { i \in 1..Len(s) : s[i] = Fence }
Max(S) == CHOOSE x \in S : \A y \in S : x >= y
\* the text between its first and its last character that is not whitespace
Trimmed(s) ==
    LET solid == { i \in 1..Len(s) : s[i] \notin Whitespace }
    IN  IF solid = {} THEN <<>> ELSE SubSeq(s, Min(solid), Max(solid))
\* C16: for a raw text with fewer than two fences, extract_code returns the
\* raw text without its leading and trailing whitespace, otherwise unchanged.
C16_ExtractionFallback ==
    (p_code # None /\ Cardinality(FencePositions(p_raw)) < 2) => p_code[1] = Trimmed(p_raw)
\* a text with a single fence, the word python and whitespace at both ends
C16_Witness ==
    /\ p_code # None
    /\ Cardinality(FencePositions(p_raw)) = 1
    /\ Py \in Range(p_raw)
    /\ Head(p_raw) \in Whitespace /\ Last(p_raw) \in Whitespace
    /\ Len(p_code[1]) = Len(p_raw) - 2

\* ---- C17 (SpecParser)
\* The fenced blocks of a text: the first fence opens a block, the second
\* closes it, the third opens the next, and so on.
NthFence(s, k) ==
    CHOOSE i \in FencePositions(s) : Cardinality({ j \in FencePositions(s) : j <= i }) = k
NumBlocks(s) == Cardinality(FencePositions(s)) \div 2
Block(s, k) == SubSeq(s, NthFence(s, 2 * k - 1) + 1, NthFence(s, 2 * k) - 1)
PythonBlocks(s) == { k \in 1..NumBlocks(s) : Block(s, k) # <<>> /\ Head(Block(s, k)) = Py }
\* the language tag of a block: the word that follows the opening fence on
\* the line of the fence
TagEnds(b) == { k \in 2..Len(b) : b[k] = Nl /\ \A j \in 1..(k - 1) : b[j] \notin Whitespace }
WithoutTag(b) == IF TagEnds(b) = {} THEN b ELSE SubSeq(b, Min(TagEnds(b)), Len(b))
Preferred(s) ==
    IF PythonBlocks(s) # {} THEN Trimmed(Tail(Block(s, Min(PythonBlocks(s)))))
    ELSE IF NumBlocks(s) >= 1 THEN Trimmed(WithoutTag(Block(s, 1)))
    ELSE Trimmed(s)
\* C17: extract_code returns the content of the first block tagged python,
\* trimmed; without one, the content of the first block without its language
\* tag, the rest as it is; without any block, the trimmed raw text.
C17_PreferenceOrder ==
    p_code # None => p_code[1] = Preferred(p_raw)

\* ---- C18
\* every attempt calls generate once and leaves one row in the log
Invocations == Len(LogRows)
AttemptEnds == Len(hist') = Len(hist) + 1
\* C18: in the lifetime of one generator the first call of generate waits
\* nothing and every later call waits the fixed delay, whether the earlier
\* calls succeeded or failed.
C18_FixedDelay ==
    [][ AttemptEnds =>
            Last(hist').delay = IF Invocations = 0 THEN 0 ELSE RateLimitDelay ]_vars

\* ---- C19
\* C19: api_calls never decreases, changes only in an attempt that called
\* generate, and grows by exactly one with every call of generate.
C19_CounterCountsCalls ==
    [][ /\ api_calls' >= api_calls
        /\ api_calls' # api_calls =>
              AttemptEnds /\ "generate" \in Range(Last(hist').stages)
        /\ (AttemptEnds /\ "generate" \in Range(Last(hist').stages)) =>
              api_calls' = api_calls + 1 ]_vars

\* ---- C20
StageOrder == <<"build_prompt", "generate", "extract_code", "is_syntax_valid",
                "passes_training_examples", "save_code">>
IsPrefix(s, t) == Len(s) <= Len(t) /\ s = SubSeq(t, 1, Len(s))
Unparsable(c) == c.syntax # "ok"
\* C20: the stages of an attempt run in the fixed order; a candidate that
\* ast.parse rejects is not given to passes_training_examples and is written
\* neither to the output directory nor to its failed directory.
C20_StagesInOrder ==
    /\ IsPrefix(stages, StageOrder)
    /\ \A i \in 1..Len(hist) :
          /\ IsPrefix(hist[i].stages, StageOrder)
          /\ (hist[i].code # None /\ Unparsable(hist[i].code[1])) =>
                /\ hist[i].stages = SubSeq(StageOrder, 1, 4)
                /\ hist[i].outcome = "syntax_error"
    /\ \A t \in DOMAIN output_dir : output_dir[t] # None => ~Unparsable(output_dir[t][1])
    /\ \A f \in failed_dir : ~Unparsable(f[3])
\* a rejected candidate, then a retry that runs all the stages
C20_Witness ==
    /\ Len(hist) = 2
    /\ hist[1].outcome = "syntax_error" /\ Unparsable(hist[1].code[1])
    /\ hist[1].stages = SubSeq(StageOrder, 1, 4)
    /\ hist[2].outcome = "accepted" /\ hist[2].stages = StageOrder
    /\ output_dir[task_id] = hist[2].code
    /\ failed_dir = {}

\* ---- C21 (SpecValidator)
\* the training examples on which p raises
RaisingExamples(data, c) ==
    { i \in 1..Len(data.train) : c.program[data.train[i].input].kind = "raise" }
\* C21: when p raises on every training example the verdict is that runtime
\* failure, not a tally of 0 out of n; when p raises on some of them the
\* message is not the bare tally: it carries the detail of the fault.
C21_RuntimeFailureSurfaced ==
    (/\ v_pc = "returned" /\ Callable(v_code)
     /\ RaisingExamples(v_task, v_code) # {}) =>
        LET n == Len(v_task.train)
        IN  /\ ~v_result[1].passed
            /\ \A k \in 0..n : v_result[1].message # PassedMessage(k, n)

\* ---- C22
\* run_pipeline gives build_prompt a previous candidate on every attempt but
\* the first of a task, once an attempt of the task has extracted one
PreviousSupplied == attempt > 0 /\ previous_code # None
\* C22: the prompt of an attempt is the refinement prompt, with the previous
\* candidate and its verdict, exactly when a previous candidate is supplied,
\* whatever its content, and the initial prompt otherwise; either one holds
\* all the training examples in order and the first three test examples.
C22_RefinementIffSupplied ==
    [][ AttemptEnds =>
            LET built == Last(hist').prompt
            IN  /\ built.template = (IF PreviousSupplied THEN "refinement" ELSE "initial")
                /\ PreviousSupplied =>
                      /\ built.previous_code = previous_code
                      /\ built.error_message = previous_error
                /\ built.train_examples = task_data.train
                /\ built.test_examples = Head3(task_data.test) ]_vars

\* ---- C23
\* C23: when the first attempt of a task begins, previous_code and
\* previous_error are None; the first prompt of every task is the initial
\* prompt, and the candidate and the verdict in a later prompt of the task
\* come from earlier attempts of the same task.
C23_AttemptStatePerTask ==
    [][ /\ (pc' = "attempt" /\ attempt' = 0) =>
              (previous_code' = None /\ previous_error' = None)
        /\ AttemptEnds =>
              LET built == Last(hist').prompt
              IN  /\ hist = <<>> => built.template = "initial"
                  /\ built.previous_code
                        \in { None } \cup { hist[j].code : j \in 1..Len(hist) }
                  /\ built.error_message
                        \in { None } \cup { hist[j].feedback : j \in 1..Len(hist) } ]_vars
\* the second task of a run, after a task that ended with a rejected
\* candidate: its first attempt raised, and its second prompt is the initial one
C23_Witness ==
    /\ Len(visits) = 2 /\ visits[1].how = "attempted" /\ visits[2].how = "attempted"
    /\ \E r \in 1..Len(LogRows) :
          /\ RowTask(LogRows[r]) = visits[1].task_id
          /\ RowStatus(LogRows[r]) = "failed_validation"
    /\ Len(hist) = 2 /\ hist[1].outcome = "exception"
    /\ hist[1].prompt.template = "initial" /\ hist[2].prompt.template = "initial"

\* ---- C24
\* the status logged for an attempt that ended with outcome o
OutcomeStatus(o) == IF o = "accepted" THEN "validated_success" ELSE o
AttemptStatuses == { "syntax_error", "failed_validation", "validated_success", "exception" }
\* C24: every attempt appends exactly one record, of its task and with the
\* status of its outcome, and no other step writes to the log; the last
\* records of the log are those of the attempts of the task attempted, in
\* attempt order; the records of one task are not interleaved with those of
\* another; the records already written stay as they are.
C24_OneRecordPerAttempt ==
    [][ /\ IF AttemptEnds
           THEN /\ Len(log_file') = Len(log_file) + 1
                /\ RowTask(Last(log_file')) = task_id
                /\ RowStatus(Last(log_file')) = OutcomeStatus(Last(hist').outcome)
                /\ RowStatus(Last(log_file')) \in AttemptStatuses
           ELSE log_file' = log_file
        /\ SubSeq(log_file', 1, Len(log_file)) = log_file
        /\ LET rows == LogRows'
               base == Len(rows) - Len(hist')
           IN  /\ (visits' # <<>> /\ Last(visits').how = "attempted") =>
                     /\ base >= 0
                     /\ \A i \in 1..Len(hist') :
                           /\ hist'[i].attempt = i - 1
                           /\ RowTask(rows[base + i]) = task_id'
                           /\ RowStatus(rows[base + i]) = OutcomeStatus(hist'[i].outcome)
               \* a record of another task than the record before it is the
               \* first record of its task
               /\ (AttemptEnds /\ LogRows # <<>> /\ RowTask(Last(LogRows)) # task_id) =>
                     \A a \in 1..Len(LogRows) : RowTask(LogRows[a]) # task_id ]_vars
\* two attempts of one task, then an attempt of the next task
C24_Witness ==
    /\ Len(LogRows) = 3 /\ Len(hist) = 1 /\ Len(visits) = 2
    /\ RowTask(LogRows[1]) = visits[1].task_id /\ RowTask(LogRows[2]) = visits[1].task_id
    /\ RowTask(LogRows[3]) = visits[2].task_id
    /\ RowStatus(LogRows[1]) = "syntax_error" /\ RowStatus(LogRows[2]) = "exception"
    /\ RowStatus(LogRows[3]) = "validated_success"

\* ---- C25 (SpecValidator)
\* C25: when passes_training_examples has returned, on whatever path, the
\* temporary file it wrote is deleted and the module it registered is no
\* longer in sys.modules.
C25_ValidationLeavesNothing ==
    v_pc = "returned" =>
        /\ v_result[1].tmp_removed
        /\ ~v_result[1].module_registered

YieldsCallable(a) == a.code # None /\ Callable(a.code[1])
\* C27: for a task without training examples, an attempt whose candidate
\* loads and has a callable p is accepted with the message of 0 out of 0,
\* whatever p does, and its candidate is saved; so no earlier attempt of the
\* task produced such a candidate.
C27_EmptyTrainingAccepts ==
    [][ (AttemptEnds /\ task_data.train = <<>>) =>
            /\ \A i \in 1..Len(hist) : ~YieldsCallable(hist[i])
            /\ YieldsCallable(Last(hist')) =>
                  /\ passes_training_examples(task_data, Last(hist').code[1]).passed
                  /\ Last(hist').outcome = "accepted"
                  /\ Last(hist').feedback = Some(PassedMessage(0, 0))
                  /\ output_dir' = [output_dir EXCEPT ![task_id] = Last(hist').code]
                  /\ pc' = "loop" ]_vars
\* a task without training examples: after a rejected first candidate, a
\* candidate whose p raises is saved
C27_Witness ==
    /\ task_data.train = <<>> /\ Len(hist) = 2
    /\ hist[1].outcome = "syntax_error"
    /\ hist[2].outcome = "accepted"
    /\ \E g \in InputGrids : hist[2].code[1].program[g].kind = "raise"
    /\ output_dir[task_id] = hist[2].code

\* ---- C28 (SpecAttempts)
EndsInException == AttemptEnds /\ Last(hist').outcome = "exception"
RowDetails(row) == row[6]
\* what the handler of the attempt loop does to the two variables
ExceptionFrame ==
    /\ previous_code' = previous_code
    /\ previous_error' = Some("Exception: " \o RowDetails(Last(log_file')))
WithCandidate(h) == { i \in 1..Len(h) : h[i].code # None }
LatestCandidate(h) == IF WithCandidate(h) = {} THEN None ELSE h[Max(WithCandidate(h))].code
C29_RowsMatchHeader ==
    \A r \in 1..Len(LogRows) :
        LET row == LogRows[r]
        IN  /\ Len(row) = Len(LogHeader)
            /\ read_column(row, "status") = Some(RowStatus(row))
            /\ read_column(row, "details") = Some(RowDetails(row))
            /\ status_counter(RowStatus(row))
                  \in { "success", "failed_syntax", "failed_validation", "failed_exception" }

====
